---- MODULE Spec2Model ----
(***************************************************************************)
(* Model of searchnets: the dataset partitioner searchnets.data.data()     *)
(* (src/src/searchnets/data.py) and the signal-detection metric            *)
(* compute_d_prime (src/src/searchnets/utils/metrics.py).                  *)
(*                                                                         *)
(* data() is modelled as a sequential process whose position is pc:        *)
(*   "glob" -> "sizes" -> "stim" -> "leaf"* -> ... -> "finish" -> "done"   *)
(* An exception ends the run: raised names it and pc becomes "done".       *)
(***************************************************************************)
EXTENDS Integers, Sequences, FiniteSets, TLC

\* ------------------------------------------------------------------ bounds
\* largest leaf pool (filenames per stimulus type, set size, presence state)
MaxPool == 4
\* largest number of filenames in one manifest (counting every pool as large
\* as the largest one)
MaxFiles == 12
\* largest requested split size (train_size, val_size, test_size); negative
\* requests go down to -MaxSize
MaxSize == 4

\* ------------------------------------------------------- Python values
\* Optional[int] arguments: None, or a one-element tuple holding the int
None == << >>
Some(n) == << n >>
IsNone(v) == v = None
\* Python truthiness of an Optional[int]: None and 0 are falsy
Truthy(v) == (~IsNone(v)) /\ v[1] # 0

\* a local that holds a list, holds None, or was never assigned
Unbound == [tag |-> "unbound", v |-> << >>]
NoneList == [tag |-> "None", v |-> << >>]
List(s) == [tag |-> "list", v |-> s]

\* (mutant) every quotient passes for whole, as if the code rounded
IsWhole_Rounds(x, d) == TRUE
\* x / d is a whole number (float.is_integer of a true division), d > 0
IsWhole(x, d) == x % d = 0

\* ------------------------------------------------------------ manifests
\* A manifest (the .json file written by searchstims) is a sequence of
\* stimulus types in file order; a stimulus type is a sequence of set-size
\* entries in file order; an entry has the set-size key (a string, as json
\* object keys are) and the number of filenames of its 'present' and
\* 'absent' lists.
StimNames == << "A", "B", "C" >>
SetSizeKeys == << "1", "2", "4", "8" >>

\* int(k) for the json keys used
IntOfKey(k) == CASE k = "1" -> 1 [] k = "2" -> 2 [] k = "4" -> 4 [] k = "8" -> 8

\* shapes: how many set sizes each stimulus type has
Shapes == { << >>, <<1>>, <<2>>, <<1, 1>>, <<2, 1>>, <<1, 2>> }

RECURSIVE SumSeq(_)
SumSeq(s) == IF s = << >> THEN 0 ELSE Head(s) + SumSeq(Tail(s))

NumLeaves(shape) == 2 * SumSeq(shape)

\* leaf number (1-based, in processing order) of presence state p of the
\* k-th set size of the t-th stimulus type
LeafNo(shape, t, k, p) == 2 * SumSeq(SubSeq(shape, 1, t - 1)) + 2 * (k - 1) + p

\* the manifest of the given shape whose pools all hold P filenames, except
\* that leaf number odd (if any) holds P + d: one less at any leaf, or one
\* more at the last leaf
MakeManifest(shape, P, odd, d) ==
    [t \in 1..Len(shape) |->
        [k \in 1..shape[t] |->
            [key |-> SetSizeKeys[k],
             present |-> IF LeafNo(shape, t, k, 1) = odd THEN P + d ELSE P,
             absent |-> IF LeafNo(shape, t, k, 2) = odd THEN P + d ELSE P]]]

ManifestParams ==
    { q \in Shapes \X (0..MaxPool) \X (0..MaxFiles) \X {-1, 0, 1} :
        /\ q[3] <= NumLeaves(q[1])
        /\ (q[3] = 0) <=> (q[4] = 0)
        /\ (q[4] = 1) => (q[3] = NumLeaves(q[1]))
        /\ q[2] < MaxPool
        /\ q[2] + q[4] >= 0
        /\ NumLeaves(q[1]) * (IF q[4] = 1 THEN q[2] + 1 ELSE q[2]) <= MaxFiles }

Manifests == { MakeManifest(q[1], q[2], q[3], q[4]) : q \in ManifestParams }

\* A filename is identified by where the manifest lists it: stimulus type t,
\* set-size entry k, presence state p (1 = 'present', 2 = 'absent'), place i
\* in the list. Filenames are unique within a manifest.
FName(t, k, p, i) == << t, k, p, i >>

PoolLen(fd, t, k, p) == IF p = 1 THEN fd[t][k].present ELSE fd[t][k].absent

\* the list of filenames of one leaf pool (data.py:180-188)
stim_fnames_of(fd, t, k, p) == [i \in 1..PoolLen(fd, t, k, p) |-> FName(t, k, p, i)]

\* The text of a filename, character by character. Most files are named
\* after their pool; the second file of an 'absent' pool is named
\* "not_present" and the third file of a 'present' pool "Present".
Literal == << "p", "r", "e", "s", "e", "n", "t" >>
Digits == << "1", "2", "3", "4", "5", "6", "7", "8", "9" >>
Stem(p, i) ==
    IF p = 1
    THEN IF i = 3 THEN << "P", "r", "e", "s", "e", "n", "t" >> ELSE Literal
    ELSE IF i = 2 THEN << "n", "o", "t", "_" >> \o Literal
                  ELSE << "a", "b", "s", "e", "n", "t" >>
PathOf(f) ==
    << StimNames[f[1]], "/", SetSizeKeys[f[2]], "/" >> \o Stem(f[3], f[4])
        \o << "_", Digits[f[4]] >>

\* 'present' in fname (data.py:241): scan for the literal from the left
MatchAt(s, lit, i) == \A j \in 1..Len(lit) : s[i + j - 1] = lit[j]
RECURSIVE FindFrom(_, _, _)
FindFrom(s, lit, i) ==
    IF i + Len(lit) - 1 > Len(s) THEN FALSE
    ELSE IF MatchAt(s, lit, i) THEN TRUE
    ELSE FindFrom(s, lit, i + 1)
\* (mutant) the label taken from the pool the file is listed in
PresentIn_ByPool(f) == f[3] = 1
PresentIn(f) == FindFrom(PathOf(f), Literal, 1)

\* np.asarray(['present' in fname for fname in x], dtype=int)
LabelsOf(x) == [i \in 1..Len(x) |-> IF PresentIn(x[i]) THEN 1 ELSE 0]

\* random.shuffle(inds): every ordering of the indices 1..n
Perms ==
    [n \in 0..MaxPool |->
        { s \in [1..n -> 1..n] : \A a, b \in 1..n : s[a] = s[b] => a = b }]

\* (mutant) one tag too few
Repeat_OneShort(v, n) == [j \in 1..(n - 1) |-> v]
\* [v] * n
Repeat(v, n) == [j \in 1..n |-> v]

\* (mutant) one pop too few
PopN_OneShort(inds, c) == [j \in 1..(c - 1) |-> inds[Len(inds) - j + 1]]
\* [inds.pop() for _ in range(c)]: the last c entries, last first
PopN(inds, c) == [j \in 1..c |-> inds[Len(inds) - j + 1]]
\* (mutant) the drawn indices stay in the list: drawing with replacement
AfterPop_Keeps(inds, c) == inds
\* inds after c pops
AfterPop(inds, c) == SubSeq(inds, 1, Len(inds) - c)

\* ------------------------------------------------------------------ state
VARIABLES
    \* inputs of data(): the number of .json files in train_dir, the content
    \* of the manifest, the requested sizes
    n_json, fnames_dict, train_size, val_size, test_size,
    \* position of the call and the exception that ended it
    pc, raised,
    \* loop position: stimulus type, and leaf (1..2*len(set_sizes)) within it
    stim, leaf,
    \* accumulators
    x_train, set_size_vec_train, stim_type_vec_train,
    x_val, set_size_vec_val, stim_type_vec_val,
    x_test, set_size_vec_test, stim_type_vec_test,
    \* per-stimulus-type and per-leaf sizes
    train_size_per_stim_type, val_size_per_stim_type, test_size_per_stim_type,
    train_size_per_set_size, val_size_per_set_size, test_size_per_set_size,
    set_sizes_by_stim_stype,
    \* the file system: whether dirname(gz_filename) exists, and the bundle
    \* file (<< >> while absent, << data_dict >> once dumped)
    gz_dir_exists, gz_file,
    \* compute_d_prime: arguments, position, locals, returned tuple
    y_true, y_pred, dp_pc,
    hits, misses, false_alarms, correct_rejects,
    hit_rate, false_alarm_rate, half_hit, half_fa,
    returned,
    \* p_item_grid, acc_grid, err_grid: the function called, its arguments
    \* (acc_grid and err_grid also take y_true and y_pred), position, locals,
    \* the exception that ended the call, the returned tuple
    called, char_grids, item_char, return_counts, stim_fnames, stim_fnames_meta,
    grid_pc, grid_shape, counts, correct_counts, trial_counts, g_idx, acc,
    grid_raised, grid_returned

inputs == << n_json, fnames_dict, train_size, val_size, test_size >>
accs == << x_train, set_size_vec_train, stim_type_vec_train,
           x_val, set_size_vec_val, stim_type_vec_val,
           x_test, set_size_vec_test, stim_type_vec_test >>
per_stim == << train_size_per_stim_type, val_size_per_stim_type,
               test_size_per_stim_type >>
per_leaf == << train_size_per_set_size, val_size_per_set_size,
               test_size_per_set_size, set_sizes_by_stim_stype >>
fs == << gz_dir_exists, gz_file >>
data_vars == << inputs, pc, raised, stim, leaf, accs, per_stim, per_leaf, fs >>
dp_vars == << y_true, y_pred, dp_pc, hits, misses, false_alarms, correct_rejects,
              hit_rate, false_alarm_rate, half_hit, half_fa, returned >>
grid_args == << called, char_grids, item_char, return_counts, stim_fnames,
                stim_fnames_meta >>
grid_vars == << grid_args, grid_pc, grid_shape, counts, correct_counts,
                trial_counts, g_idx, acc, grid_raised, grid_returned >>
vars == << data_vars, dp_vars, grid_vars >>

\* an exception: its type, the line of data.py that raised it, and the loop
\* position (stimulus type, leaf) at which it was raised
NoExc == [exc |-> "", line |-> 0, stim |-> 0, leaf |-> 0]

SizeArgs == {None} \cup { Some(n) : n \in (-MaxSize)..MaxSize }

\* the locals and the file system before data() runs
DataFresh ==
    /\ raised = NoExc
    /\ stim = 0
    /\ leaf = 0
    /\ x_train = << >>
    /\ set_size_vec_train = << >>
    /\ stim_type_vec_train = << >>
    /\ x_val = Unbound
    /\ set_size_vec_val = Unbound
    /\ stim_type_vec_val = Unbound
    /\ x_test = << >>
    /\ set_size_vec_test = << >>
    /\ stim_type_vec_test = << >>
    /\ train_size_per_stim_type = 0
    /\ val_size_per_stim_type = 0
    /\ test_size_per_stim_type = 0
    /\ train_size_per_set_size = 0
    /\ val_size_per_set_size = 0
    /\ test_size_per_set_size = 0
    /\ set_sizes_by_stim_stype = << >>
    /\ gz_dir_exists = FALSE
    /\ gz_file = << >>

\* compute_d_prime is not running
FloatNone == [kind |-> "none", n |-> 0, d |-> 1]
DPrimeIdle ==
    /\ y_true = << >>
    /\ y_pred = << >>
    /\ dp_pc = "idle"
    /\ hits = 0
    /\ misses = 0
    /\ false_alarms = 0
    /\ correct_rejects = 0
    /\ hit_rate = FloatNone
    /\ false_alarm_rate = FloatNone
    /\ half_hit = FloatNone
    /\ half_fa = FloatNone
    /\ returned = << >>

\* no grid function is running
NoGridExc == [exc |-> "", line |-> 0, grid |-> 0]
GridIdle ==
    /\ called = "none"
    /\ char_grids = << >>
    /\ item_char = ""
    /\ return_counts = FALSE
    /\ stim_fnames = << >>
    /\ stim_fnames_meta = << >>
    /\ grid_pc = "idle"
    /\ grid_shape = << >>
    /\ counts = << >>
    /\ correct_counts = << >>
    /\ trial_counts = << >>
    /\ g_idx = 0
    /\ acc = << >>
    /\ grid_raised = NoGridExc
    /\ grid_returned = << >>

Init ==
    /\ n_json \in 0..2
    /\ IF n_json = 1
       THEN /\ fnames_dict \in Manifests
            /\ train_size \in 0..MaxSize
            /\ val_size \in SizeArgs
            /\ test_size \in SizeArgs
       ELSE /\ fnames_dict = << >>
            /\ train_size \in 0..MaxSize
            /\ val_size = None
            /\ test_size = None
    /\ pc = "glob"
    /\ DataFresh
    /\ DPrimeIdle
    /\ GridIdle

\* An exception propagates out of data(): the frame and its locals are gone.
Raise(exc, line) ==
    /\ pc' = "done"
    /\ raised' = [exc |-> exc, line |-> line, stim |-> stim, leaf |-> leaf]
    /\ stim' = 0
    /\ leaf' = 0
    /\ x_train' = << >>
    /\ set_size_vec_train' = << >>
    /\ stim_type_vec_train' = << >>
    /\ x_val' = Unbound
    /\ set_size_vec_val' = Unbound
    /\ stim_type_vec_val' = Unbound
    /\ x_test' = << >>
    /\ set_size_vec_test' = << >>
    /\ stim_type_vec_test' = << >>
    /\ train_size_per_stim_type' = 0
    /\ val_size_per_stim_type' = 0
    /\ test_size_per_stim_type' = 0
    /\ train_size_per_set_size' = 0
    /\ val_size_per_set_size' = 0
    /\ test_size_per_set_size' = 0
    /\ set_sizes_by_stim_stype' = << >>

\* data.py:73-100: find the manifest, create the accumulators
Glob ==
    /\ pc = "glob"
    /\ UNCHANGED << inputs, fs, dp_vars, grid_vars >>
    /\ IF n_json = 0 THEN Raise("ValueError", 76)
       ELSE IF n_json > 1 THEN Raise("ValueError", 79)
       ELSE /\ pc' = "sizes"
            /\ x_train' = << >>
            /\ set_size_vec_train' = << >>
            /\ stim_type_vec_train' = << >>
            /\ IF Truthy(val_size)
               THEN /\ x_val' = List(<< >>)
                    /\ set_size_vec_val' = List(<< >>)
                    /\ stim_type_vec_val' = List(<< >>)
               ELSE /\ x_val' = NoneList
                    /\ set_size_vec_val' = NoneList
                    /\ stim_type_vec_val' = Unbound
            /\ x_test' = << >>
            /\ set_size_vec_test' = << >>
            /\ stim_type_vec_test' = << >>
            /\ UNCHANGED << raised, stim, leaf, per_stim, per_leaf >>

\* data.py:102-133: sizes per stimulus type
PerStimType ==
    /\ pc = "sizes"
    /\ UNCHANGED << inputs, fs, dp_vars, grid_vars >>
    /\ LET num_stim_types == Len(fnames_dict) IN
       IF num_stim_types = 0 THEN Raise("ZeroDivisionError", 106)
       ELSE IF ~IsWhole(train_size, num_stim_types) THEN Raise("TypeError", 110)
       ELSE IF Truthy(val_size) /\ ~IsWhole(val_size[1], num_stim_types)
            THEN Raise("TypeError", 118)
       ELSE IF Truthy(test_size) /\ ~IsWhole(test_size[1], num_stim_types)
            THEN Raise("TypeError", 128)
       ELSE /\ train_size_per_stim_type' = train_size \div num_stim_types
            /\ val_size_per_stim_type' =
                  IF Truthy(val_size) THEN val_size[1] \div num_stim_types ELSE 0
            /\ test_size_per_stim_type' =
                  IF Truthy(test_size) THEN test_size[1] \div num_stim_types ELSE -1
            /\ set_sizes_by_stim_stype' = << >>
            /\ stim' = 1
            /\ pc' = "stim"
            /\ UNCHANGED << raised, leaf, accs, train_size_per_set_size,
                            val_size_per_set_size, test_size_per_set_size >>

\* data.py:138-140: the set sizes of a stimulus type, keys converted to int
set_sizes_of(stim_info_by_set_size) ==
    [k \in 1..Len(stim_info_by_set_size) |-> IntOfKey(stim_info_by_set_size[k].key)]

\* (mutant) no test size is refused
InvalidTestSize_Never(ts) == FALSE
\* data.py:161-171: a test_size that is neither None, nor -1, nor positive
InvalidTestSize(ts) == ~(IsNone(ts) \/ ts[1] = -1) /\ ~(ts[1] > 0)

\* data.py:135-188: enter the next stimulus type, sizes per leaf
PerSetSize ==
    /\ pc = "stim"
    /\ UNCHANGED << inputs, fs, dp_vars, grid_vars >>
    /\ LET set_sizes == set_sizes_of(fnames_dict[stim])
           n == Len(set_sizes)
       IN
       IF n = 0 THEN Raise("ZeroDivisionError", 143)
       ELSE IF ~IsWhole(train_size_per_stim_type, n * 2) THEN Raise("TypeError", 147)
       ELSE IF Truthy(val_size) /\ ~IsWhole(val_size_per_stim_type, n * 2)
            THEN Raise("TypeError", 156)
       ELSE IF ~(IsNone(test_size) \/ test_size[1] = -1) /\ test_size[1] > 0
               /\ ~IsWhole(test_size_per_stim_type, n * 2)
            THEN Raise("TypeError", 168)
       ELSE IF InvalidTestSize(test_size) THEN Raise("ValueError", 171)
       ELSE /\ set_sizes_by_stim_stype' =
                  Append(set_sizes_by_stim_stype, << StimNames[stim], set_sizes >>)
            /\ train_size_per_set_size' = train_size_per_stim_type \div (n * 2)
            /\ val_size_per_set_size' =
                  IF Truthy(val_size) THEN val_size_per_stim_type \div (n * 2) ELSE 0
            /\ test_size_per_set_size' =
                  IF IsNone(test_size) \/ test_size[1] = -1 THEN -1
                  ELSE test_size_per_stim_type \div (n * 2)
            /\ leaf' = 1
            /\ pc' = "leaf"
            /\ UNCHANGED << raised, stim, accs, per_stim >>

\* (mutant) the test size left out of the total
total_size_of_NoTest(tr, va, te) ==
    (IF tr # 0 /\ tr # -1 THEN tr ELSE 0) + (IF va # 0 /\ va # -1 THEN va ELSE 0)
\* data.py:194-196: the sizes that count towards the oversubscription check
\* (`size is not 0 and size is not -1`)
total_size_of(tr, va, te) ==
    (IF tr # 0 /\ tr # -1 THEN tr ELSE 0)
    + (IF va # 0 /\ va # -1 THEN va ELSE 0)
    + (IF te # 0 /\ te # -1 THEN te ELSE 0)

\* stim_fnames_arr[inds].tolist(): the filenames at the given indices
TakeAt(arr, picked) == [j \in 1..Len(picked) |-> arr[picked[j]]]

\* the set-size entry and presence state of leaf number l of a stimulus type
EntryOf(l) == (l + 1) \div 2
PresenceOf(l) == IF l % 2 = 1 THEN 1 ELSE 2

\* (mutant) the dump reached from inside the leaf loop, after the first leaf
Advance_OutAfterFirstLeaf ==
    /\ leaf' = 0
    /\ stim' = stim
    /\ pc' = "finish"
\* where the loops go after a leaf: next leaf, next stimulus type, or out
Advance ==
    IF leaf < 2 * Len(fnames_dict[stim])
    THEN /\ leaf' = leaf + 1
         /\ pc' = "leaf"
         /\ stim' = stim
    ELSE IF stim < Len(fnames_dict)
    THEN /\ leaf' = 0
         /\ stim' = stim + 1
         /\ pc' = "stim"
    ELSE /\ leaf' = 0
         /\ stim' = stim
         /\ pc' = "finish"

\* data.py:192-231: one leaf pool: check, shuffle, draw train, val, test
Leaf ==
    /\ pc = "leaf"
    /\ UNCHANGED << inputs, fs, dp_vars, grid_vars >>
    /\ LET k == EntryOf(leaf)
           p == PresenceOf(leaf)
           stim_type == StimNames[stim]
           set_size == IntOfKey(fnames_dict[stim][k].key)
           stim_fnames_arr == stim_fnames_of(fnames_dict, stim, k, p)
           n == Len(stim_fnames_arr)
           tr == train_size_per_set_size
           va == val_size_per_set_size
           te == test_size_per_set_size
           total_size == total_size_of(tr, va, te)
       IN
       IF total_size > n THEN Raise("ValueError", 198)
       ELSE \E inds \in Perms[n] :
         \* line 207: pop from an empty list
         IF tr > n THEN Raise("IndexError", 207)
         \* line 209: np.asarray([]) is a float array, no valid index
         ELSE IF tr <= 0 THEN Raise("IndexError", 209)
         ELSE
           LET train_inds == PopN(inds, tr)
               inds1 == AfterPop(inds, tr)
               tmp_x_train == TakeAt(stim_fnames_arr, train_inds)
               nv == IF va > 0 THEN va ELSE 0
           IN
           IF nv > Len(inds1) THEN Raise("IndexError", 216)
           ELSE
             LET val_inds == PopN(inds1, nv)
                 inds2 == AfterPop(inds1, nv)
                 tmp_x_val == TakeAt(stim_fnames_arr, val_inds)
             IN
             IF te > 0 /\ te > Len(inds2) THEN Raise("IndexError", 224)
             ELSE IF te = -1 /\ Len(inds2) = 0 THEN Raise("IndexError", 228)
             ELSE
               LET test_inds == IF te > 0 THEN PopN(inds2, te) ELSE inds2
                   tmp_x_test == TakeAt(stim_fnames_arr, test_inds)
               IN
               /\ x_train' = x_train \o tmp_x_train
               /\ set_size_vec_train' =
                     set_size_vec_train \o Repeat(set_size, Len(tmp_x_train))
               /\ x_val' = IF va > 0 THEN List(x_val.v \o tmp_x_val) ELSE x_val
               /\ set_size_vec_val' =
                     IF va > 0
                     THEN List(set_size_vec_val.v \o Repeat(set_size, Len(tmp_x_val)))
                     ELSE set_size_vec_val
               /\ stim_type_vec_val' =
                     IF va > 0
                     THEN List(stim_type_vec_val.v \o Repeat(stim_type, Len(tmp_x_val)))
                     ELSE stim_type_vec_val
               /\ x_test' = x_test \o tmp_x_test
               /\ set_size_vec_test' =
                     set_size_vec_test \o Repeat(set_size, Len(tmp_x_test))
               \* line 231 extends stim_type_vec_train, not stim_type_vec_test
               /\ stim_type_vec_train' =
                     stim_type_vec_train \o Repeat(stim_type, Len(tmp_x_train))
                        \o Repeat(stim_type, Len(tmp_x_test))
               /\ stim_type_vec_test' = stim_type_vec_test
               /\ Advance
               /\ UNCHANGED << raised, per_stim, per_leaf >>

\* data.py:233-271: labels, output directory, dump. gz_filename names a file
\* inside a directory that does not exist yet.
Finish ==
    /\ pc = "finish"
    /\ UNCHANGED << inputs, dp_vars, grid_vars >>
    \* lines 253-255: os.makedirs(gz_dirname) unless it exists
    /\ gz_dir_exists' = TRUE
    /\ LET y_train == LabelsOf(x_train)
           y_val == IF Truthy(val_size) THEN List(LabelsOf(x_val.v)) ELSE NoneList
           y_test == LabelsOf(x_test)
       IN
       \* line 268 reads stim_type_vec_val, never assigned without a val_size
       IF stim_type_vec_val.tag = "unbound"
       THEN /\ Raise("UnboundLocalError", 268)
            /\ gz_file' = gz_file
       ELSE /\ gz_file' = <<
                  [x_train |-> x_train,
                   y_train |-> y_train,
                   x_val |-> x_val,
                   y_val |-> y_val,
                   x_test |-> x_test,
                   y_test |-> y_test,
                   set_size_vec_train |-> set_size_vec_train,
                   set_size_vec_val |-> set_size_vec_val,
                   set_size_vec_test |-> set_size_vec_test,
                   set_sizes_by_stim_stype |-> set_sizes_by_stim_stype,
                   stim_type_vec_train |-> stim_type_vec_train,
                   stim_type_vec_val |-> stim_type_vec_val,
                   stim_type_vec_test |-> stim_type_vec_test] >>
            /\ pc' = "done"
            /\ UNCHANGED << raised, stim, leaf, accs, per_stim, per_leaf >>

Next == Glob \/ PerStimType \/ PerSetSize \/ Leaf \/ Finish

Spec == Init /\ [][Next]_vars

\* ---------------------------------------------------- compute_d_prime
\* longest y_true / y_pred
MaxLen == 4

\* numpy float64 values, as exact fractions n/d (d > 0) or nan / inf / -inf
Fin(n, d) == [kind |-> "fin", n |-> n, d |-> d]
NaN == [kind |-> "nan", n |-> 0, d |-> 1]
PosInf == [kind |-> "inf", n |-> 1, d |-> 1]
NegInf == [kind |-> "-inf", n |-> -1, d |-> 1]

\* a / b for numpy integers a, b >= 0: x/0 warns and gives nan or inf
IntTrueDiv(a, b) == IF b # 0 THEN Fin(a, b) ELSE IF a = 0 THEN NaN ELSE PosInf
\* 0.5 / b
HalfOver(b) == IF b # 0 THEN Fin(1, 2 * b) ELSE PosInf
\* x == k for an integer k (nan and inf equal no integer)
FloatEq(x, k) == x.kind = "fin" /\ x.n = k * x.d
\* 1 - x
OneMinus(x) ==
    CASE x.kind = "fin" -> Fin(x.d - x.n, x.d)
      [] x.kind = "inf" -> NegInf
      [] x.kind = "-inf" -> PosInf
      [] OTHER -> NaN

\* np.logical_and(y_pred == p, y_true == t).sum()
RECURSIVE CountBoth(_, _, _, _)
CountBoth(pred, true, p, t) ==
    IF pred = << >> THEN 0
    ELSE (IF Head(pred) = p /\ Head(true) = t THEN 1 ELSE 0)
         + CountBoth(Tail(pred), Tail(true), p, t)

\* (mutant) the correction by a whole step 1/N instead of half a step
Corrected_WholeStep(rate, half) ==
    LET step == Fin(2 * half.n, half.d)
        r1 == IF FloatEq(rate, 1) THEN OneMinus(step) ELSE rate
    IN IF FloatEq(r1, 0) THEN step ELSE r1
\* metrics.py:28-31 (and 33-36): the two boundary corrections, in order
Corrected(rate, half) ==
    LET r1 == IF FloatEq(rate, 1) THEN OneMinus(half) ELSE rate
    IN IF FloatEq(r1, 0) THEN half ELSE r1

\* z_score = norm.ppf, by the kind of value it returns
z_score(x) ==
    CASE x.kind = "fin" /\ 0 < x.n /\ x.n < x.d -> "fin"
      [] x.kind = "fin" /\ x.n = 0 -> "-inf"
      [] x.kind = "fin" /\ x.n = x.d -> "inf"
      [] OTHER -> "nan"
\* a - b, by kind
KindMinus(a, b) ==
    CASE a = "nan" \/ b = "nan" -> "nan"
      [] a = "fin" /\ b = "fin" -> "fin"
      [] a = "fin" -> (IF b = "inf" THEN "-inf" ELSE "inf")
      [] b = "fin" -> a
      [] a = b -> "nan"
      [] OTHER -> a

BinarySeqs(n) == [1..n -> {0, 1}]

DataIdle ==
    /\ n_json = 0
    /\ fnames_dict = << >>
    /\ train_size = 0
    /\ val_size = None
    /\ test_size = None
    /\ pc = "idle"
    /\ DataFresh

InitDPrime ==
    /\ DataIdle
    /\ \E n \in 0..MaxLen : y_true \in BinarySeqs(n) /\ y_pred \in BinarySeqs(n)
    /\ dp_pc = "rates"
    /\ hits = 0
    /\ misses = 0
    /\ false_alarms = 0
    /\ correct_rejects = 0
    /\ hit_rate = FloatNone
    /\ false_alarm_rate = FloatNone
    /\ half_hit = FloatNone
    /\ half_fa = FloatNone
    /\ returned = << >>
    /\ GridIdle

\* metrics.py:14-26: the four counts, the two rates, the two half steps
Rates ==
    /\ dp_pc = "rates"
    /\ hits' = CountBoth(y_pred, y_true, 1, 1)
    /\ misses' = CountBoth(y_pred, y_true, 0, 1)
    /\ hit_rate' = IntTrueDiv(hits', hits' + misses')
    /\ false_alarms' = CountBoth(y_pred, y_true, 1, 0)
    /\ correct_rejects' = CountBoth(y_pred, y_true, 0, 0)
    /\ false_alarm_rate' = IntTrueDiv(false_alarms', false_alarms' + correct_rejects')
    /\ half_hit' = HalfOver(hits' + misses')
    /\ half_fa' = HalfOver(false_alarms' + correct_rejects')
    /\ dp_pc' = "correct_hit"
    /\ UNCHANGED << data_vars, grid_vars, y_true, y_pred, returned >>

\* metrics.py:28-31
CorrectHitRate ==
    /\ dp_pc = "correct_hit"
    /\ hit_rate' = Corrected(hit_rate, half_hit)
    /\ dp_pc' = "correct_fa"
    /\ UNCHANGED << data_vars, grid_vars, y_true, y_pred, hits, misses, false_alarms,
                    correct_rejects, false_alarm_rate, half_hit, half_fa, returned >>

\* metrics.py:33-36
CorrectFalseAlarmRate ==
    /\ dp_pc = "correct_fa"
    /\ false_alarm_rate' = Corrected(false_alarm_rate, half_fa)
    /\ dp_pc' = "return"
    /\ UNCHANGED << data_vars, grid_vars, y_true, y_pred, hits, misses, false_alarms,
                    correct_rejects, hit_rate, half_hit, half_fa, returned >>

\* metrics.py:38-39
Return ==
    /\ dp_pc = "return"
    /\ returned' = << hit_rate, false_alarm_rate,
                      KindMinus(z_score(hit_rate), z_score(false_alarm_rate)) >>
    /\ dp_pc' = "done"
    /\ UNCHANGED << data_vars, grid_vars, y_true, y_pred, hits, misses, false_alarms,
                    correct_rejects, hit_rate, false_alarm_rate, half_hit, half_fa >>

NextDPrime == Rates \/ CorrectHitRate \/ CorrectFalseAlarmRate \/ Return

SpecDPrime == InitDPrime /\ [][NextDPrime]_vars

\* ------------------------------------- p_item_grid, acc_grid, err_grid
\* most grids in char_grids, and most filenames in stim_fnames_meta
MaxGrids == 2
\* most filenames in stim_fnames; y_true and y_pred have one entry for each
MaxNames == 2

\* A grid of characters is a sequence of rows, each a sequence of cells; ''
\* is an empty cell, 't' a target, 'd' a distractor. Two grids of shape
\* (1, 2) and one grid of shape (2, 1).
Grids ==
    { << << "t", "" >> >>,
      << << "d", "t" >> >>,
      << << "t" >>, << "" >> >> }
Names == { "a", "b" }
ItemChars == { "t", "d" }

ListsUpTo(S, n) == UNION { [1..m -> S] : m \in 0..n }

\* np.asarray(g).shape
ShapeOf(g) == << Len(g), Len(g[1]) >>
\* set(g.shape for g in char_grids)
ShapesOf(gs) == { ShapeOf(gs[i]) : i \in 1..Len(gs) }
\* np.zeros(grid_shape)
Zeros(shape) == [r \in 1..shape[1] |-> [c \in 1..shape[2] |-> 0]]
CellsOf(g) == (1..Len(g)) \X (1..Len(g[1]))
\* (mutant) every occupied cell counts as the item
ItemCells_Occupied(g, ch) == { rc \in CellsOf(g) : g[rc[1]][rc[2]] # "" }
\* np.nonzero(g == item_char): the (row, column) pairs of the matching cells
ItemCells(g, ch) == { rc \in CellsOf(g) : g[rc[1]][rc[2]] = ch }
\* np.nonzero(g != ''): the (row, column) pairs of the occupied cells
NonEmptyCells(g) == { rc \in CellsOf(g) : g[rc[1]][rc[2]] # "" }
\* arr[row_ind, col_ind] += 1 for every listed cell
Increment(arr, cells) ==
    [r \in 1..Len(arr) |->
        [c \in 1..Len(arr[r]) |->
            IF << r, c >> \in cells THEN arr[r][c] + 1 ELSE arr[r][c]]]
\* np.sum(arr)
RECURSIVE SumAll(_)
SumAll(arr) ==
    IF arr = << >> THEN 0 ELSE SumSeq(Head(arr)) + SumAll(Tail(arr))
\* (mutant) 0 / 0 coerced to 0
FloatDiv_ZeroForUndefined(x, y) == IF y # 0 THEN Fin(x, y) ELSE Fin(0, 1)
\* x / y for floats x, y >= 0 holding whole numbers: x/0 warns, gives nan or inf
FloatDiv(x, y) == IF y # 0 THEN Fin(x, y) ELSE IF x = 0 THEN NaN ELSE PosInf
\* arr / total, elementwise
DivByScalar(arr, total) ==
    [r \in 1..Len(arr) |-> [c \in 1..Len(arr[r]) |-> FloatDiv(arr[r][c], total)]]
\* a / b, elementwise
DivArrays(a, b) ==
    [r \in 1..Len(a) |-> [c \in 1..Len(a[r]) |-> FloatDiv(a[r][c], b[r][c])]]
\* (mutant) the accuracy passed through
Complement_Same(arr) == arr
\* 1 - arr, elementwise
Complement(arr) ==
    [r \in 1..Len(arr) |-> [c \in 1..Len(arr[r]) |-> OneMinus(arr[r][c])]]
\* np.nonzero(stim_fnames == g_fname)[0]: the indices holding g_fname
IndsOf(names, g_fname) == { i \in 1..Len(names) : names[i] = g_fname }
\* the grids the loop of acc_grid visits: zip stops at the shorter list
NumZipped(gs, meta) == IF Len(gs) <= Len(meta) THEN Len(gs) ELSE Len(meta)

InitGrid ==
    /\ DataIdle
    /\ dp_pc = "idle"
    /\ hits = 0
    /\ misses = 0
    /\ false_alarms = 0
    /\ correct_rejects = 0
    /\ hit_rate = FloatNone
    /\ false_alarm_rate = FloatNone
    /\ half_hit = FloatNone
    /\ half_fa = FloatNone
    /\ returned = << >>
    /\ called \in { "p_item_grid", "acc_grid", "err_grid" }
    /\ char_grids \in ListsUpTo(Grids, MaxGrids)
    /\ return_counts \in BOOLEAN
    /\ IF called = "p_item_grid"
       THEN /\ item_char \in ItemChars
            /\ stim_fnames = << >>
            /\ stim_fnames_meta = << >>
            /\ y_true = << >>
            /\ y_pred = << >>
       ELSE /\ item_char = ""
            /\ stim_fnames \in ListsUpTo(Names, MaxNames)
            /\ stim_fnames_meta \in ListsUpTo(Names, MaxGrids)
            /\ y_true \in BinarySeqs(Len(stim_fnames))
            /\ y_pred \in BinarySeqs(Len(stim_fnames))
    /\ grid_pc = "shape"
    /\ grid_shape = << >>
    /\ counts = << >>
    /\ correct_counts = << >>
    /\ trial_counts = << >>
    /\ g_idx = 0
    /\ acc = << >>
    /\ grid_raised = NoGridExc
    /\ grid_returned = << >>

\* An exception leaves the function while it works on grid number `grid` (0
\* before the loop); the locals stay as they were at that point.
GridRaise(exc, line, grid) ==
    /\ grid_pc' = "done"
    /\ grid_raised' = [exc |-> exc, line |-> line, grid |-> grid]
    /\ UNCHANGED << grid_shape, counts, correct_counts, trial_counts, g_idx, acc,
                    grid_returned >>

\* (mutant) only an empty list of grids is refused
OneShape_AnyNumber(gs) == Cardinality(ShapesOf(gs)) >= 1
\* metrics.py:73 and 129: len(grid_shape) == 1
OneShape(gs) == Cardinality(ShapesOf(gs)) = 1

\* metrics.py:69-81: one shape for all grids, or ValueError; allocate counts
PItemShape ==
    /\ grid_pc = "shape"
    /\ called = "p_item_grid"
    /\ UNCHANGED << data_vars, dp_vars, grid_args >>
    /\ IF OneShape(char_grids)
       THEN /\ grid_shape' = CHOOSE sh \in ShapesOf(char_grids) : TRUE
            /\ counts' = Zeros(grid_shape')
            /\ grid_pc' = "count"
            /\ UNCHANGED << correct_counts, trial_counts, g_idx, acc, grid_raised,
                            grid_returned >>
       ELSE GridRaise("ValueError", 76, 0)

\* metrics.py:82-85: one grid of the loop
PItemCount ==
    /\ grid_pc = "count"
    /\ g_idx < Len(char_grids)
    /\ UNCHANGED << data_vars, dp_vars, grid_args >>
    /\ LET g == char_grids[g_idx + 1] IN
       /\ counts' = Increment(counts, ItemCells(g, item_char))
       /\ g_idx' = g_idx + 1
       /\ UNCHANGED << grid_pc, grid_shape, correct_counts, trial_counts, acc,
                       grid_raised, grid_returned >>

\* metrics.py:86-90
PItemReturn ==
    /\ grid_pc = "count"
    /\ g_idx = Len(char_grids)
    /\ UNCHANGED << data_vars, dp_vars, grid_args >>
    /\ LET p == DivByScalar(counts, SumAll(counts)) IN
       /\ grid_returned' = IF return_counts THEN << p, counts >> ELSE << p >>
       /\ grid_pc' = "done"
       /\ UNCHANGED << grid_shape, counts, correct_counts, trial_counts, g_idx, acc,
                       grid_raised >>

\* metrics.py:122-138 (err_grid enters acc_grid at once, metrics.py:168-173)
AccShape ==
    /\ grid_pc = "shape"
    /\ called \in { "acc_grid", "err_grid" }
    /\ UNCHANGED << data_vars, dp_vars, grid_args >>
    /\ IF OneShape(char_grids)
       THEN /\ grid_shape' = CHOOSE sh \in ShapesOf(char_grids) : TRUE
            /\ correct_counts' = Zeros(grid_shape')
            /\ trial_counts' = Zeros(grid_shape')
            /\ grid_pc' = "loop"
            /\ UNCHANGED << counts, g_idx, acc, grid_raised, grid_returned >>
       ELSE GridRaise("ValueError", 132, 0)

\* (mutant) the grid counts as correct when the prediction is 1
IsCorrect_Pred(ind) == y_pred[ind] = 1
\* metrics.py:153
IsCorrect(ind) == y_true[ind] = y_pred[ind]

\* (mutant) any number of matches passes, the first one is used
OneMatch_Any(inds) == inds # {}
\* metrics.py:146: ind.shape[0] != 1 raises
OneMatch(inds) == Cardinality(inds) = 1

\* metrics.py:139-158: one (grid, filename) pair of the loop
AccStep ==
    /\ grid_pc = "loop"
    /\ g_idx < NumZipped(char_grids, stim_fnames_meta)
    /\ UNCHANGED << data_vars, dp_vars, grid_args >>
    /\ LET g == char_grids[g_idx + 1]
           g_fname == stim_fnames_meta[g_idx + 1]
           cells == NonEmptyCells(g)
           inds == IndsOf(stim_fnames, g_fname)
       IN
       IF ~OneMatch(inds) THEN GridRaise("ValueError", 147, g_idx + 1)
       ELSE
         LET ind == CHOOSE i \in inds : \A j \in inds : i <= j
             is_correct == IsCorrect(ind)
         IN
         /\ correct_counts' =
               IF is_correct THEN Increment(correct_counts, cells) ELSE correct_counts
         /\ trial_counts' = Increment(trial_counts, cells)
         /\ g_idx' = g_idx + 1
         /\ UNCHANGED << grid_pc, grid_shape, counts, acc, grid_raised, grid_returned >>

\* metrics.py:160-164: acc_grid returns, to its caller or to err_grid
AccReturn ==
    /\ grid_pc = "loop"
    /\ g_idx = NumZipped(char_grids, stim_fnames_meta)
    /\ UNCHANGED << data_vars, dp_vars, grid_args >>
    /\ acc' = DivArrays(correct_counts, trial_counts)
    /\ IF called = "acc_grid"
       THEN /\ grid_returned' =
                  IF return_counts THEN << acc', correct_counts, trial_counts >>
                  ELSE << acc' >>
            /\ grid_pc' = "done"
       ELSE /\ grid_returned' = grid_returned
            /\ grid_pc' = "err"
    /\ UNCHANGED << grid_shape, counts, correct_counts, trial_counts, g_idx,
                    grid_raised >>

\* metrics.py:175-180
ErrReturn ==
    /\ grid_pc = "err"
    /\ UNCHANGED << data_vars, dp_vars, grid_args >>
    /\ LET err == Complement(acc) IN
       /\ grid_returned' =
             IF return_counts THEN << err, correct_counts, trial_counts >>
             ELSE << err >>
       /\ grid_pc' = "done"
       /\ UNCHANGED << grid_shape, counts, correct_counts, trial_counts, g_idx, acc,
                       grid_raised >>

NextGrid ==
    PItemShape \/ PItemCount \/ PItemReturn \/ AccShape \/ AccStep \/ AccReturn
        \/ ErrReturn

SpecGrid == InitGrid /\ [][NextGrid]_vars

\* =================================================================
\* Properties of data()
\* =================================================================
Done == pc = "done"
Written == gz_file # << >>
Bundle == gz_file[1]

NumTypes == Len(fnames_dict)
NumSetSizes(t) == Len(fnames_dict[t])
\* the leaf pools of the manifest: (stimulus type, set-size entry, presence)
LeafPools ==
    UNION { {t} \X (1..NumSetSizes(t)) \X {1, 2} : t \in 1..NumTypes }
PoolSize(q) == PoolLen(fnames_dict, q[1], q[2], q[3])
\* the filenames of a pool, as a set
PoolFiles(q) == { FName(q[1], q[2], q[3], i) : i \in 1..PoolSize(q) }
Elems(x) == { x[i] : i \in 1..Len(x) }
\* how many entries of the list x come from pool q
PoolOf(f) == << f[1], f[2], f[3] >>
CountFrom(x, q) == Cardinality({ i \in 1..Len(x) : PoolOf(x[i]) = q })

\* the request, as the specification reads it
ValRequested == Truthy(val_size)
ValPositive == (~IsNone(val_size)) /\ val_size[1] > 0
TestFixed == (~IsNone(test_size)) /\ test_size[1] > 0
TestRemainder == IsNone(test_size) \/ test_size = Some(-1)
\* size / types / set sizes / 2 is whole at each of the three divisions
WholeAtEveryStep(size, t) ==
    /\ size % NumTypes = 0
    /\ (size \div NumTypes) % NumSetSizes(t) = 0
    /\ ((size \div NumTypes) \div NumSetSizes(t)) % 2 = 0
PerLeaf(size, t) == ((size \div NumTypes) \div NumSetSizes(t)) \div 2

\* C1: in a written bundle len(x_train) = train_size, len(x_val) = val_size
\* when a (positive) validation size is requested, len(x_test) = test_size
\* when test_size is a positive fixed count; every leaf pool gives exactly
\* its per-leaf count to each split; and in fixed-count mode the filenames
\* of a pool that are in some split number exactly train + val + test per
\* leaf, the rest being in no split.
C1_ExactCounts ==
    Written =>
        /\ Len(Bundle.x_train) = train_size
        /\ ValPositive =>
              /\ Bundle.x_val.tag = "list"
              /\ Len(Bundle.x_val.v) = val_size[1]
        /\ TestFixed => Len(Bundle.x_test) = test_size[1]
        /\ \A q \in LeafPools :
              /\ CountFrom(Bundle.x_train, q) = PerLeaf(train_size, q[1])
              /\ ValPositive =>
                    CountFrom(Bundle.x_val.v, q) = PerLeaf(val_size[1], q[1])
              /\ TestFixed =>
                    /\ CountFrom(Bundle.x_test, q) = PerLeaf(test_size[1], q[1])
                    /\ Cardinality(PoolFiles(q) \cap
                          (Elems(Bundle.x_train) \cup Elems(Bundle.x_val.v)
                              \cup Elems(Bundle.x_test)))
                       = PerLeaf(train_size, q[1])
                         + (IF ValPositive THEN PerLeaf(val_size[1], q[1]) ELSE 0)
                         + PerLeaf(test_size[1], q[1])

\* a bundle with all three splits requested as positive counts, one pool of
\* which keeps a leftover that is in no split
C1_Witness ==
    /\ Written
    /\ ValPositive
    /\ TestFixed
    /\ \E q \in LeafPools :
          PoolSize(q) > CountFrom(Bundle.x_train, q)
                        + CountFrom(Bundle.x_val.v, q) + CountFrom(Bundle.x_test, q)

\* C2: in a written bundle no filename occurs twice inside one split, and
\* the filename sets of x_train, x_val and x_test are pairwise disjoint.
NoRepeat(x) == \A i, j \in 1..Len(x) : x[i] = x[j] => i = j
C2_Disjoint ==
    Written =>
        /\ NoRepeat(Bundle.x_train)
        /\ NoRepeat(Bundle.x_val.v)
        /\ NoRepeat(Bundle.x_test)
        /\ Elems(Bundle.x_train) \cap Elems(Bundle.x_val.v) = {}
        /\ Elems(Bundle.x_train) \cap Elems(Bundle.x_test) = {}
        /\ Elems(Bundle.x_val.v) \cap Elems(Bundle.x_test) = {}

\* a bundle whose three splits are all non-empty, two drawn from one pool
C2_Witness ==
    /\ Written
    /\ \E q \in LeafPools :
          /\ CountFrom(Bundle.x_train, q) > 0
          /\ CountFrom(Bundle.x_val.v, q) > 0
          /\ CountFrom(Bundle.x_test, q) > 1

\* C3: in a written bundle (of a request with a positive val_size)
\* stim_type_vec_s is parallel to x_s for each split
\* s: same length, and entry i is the stimulus type of the pool x_s[i] came
\* from.
ParallelTypes(vec, x) ==
    /\ Len(vec) = Len(x)
    /\ \A i \in 1..Len(x) : i <= Len(vec) => vec[i] = StimNames[x[i][1]]
C3_StimTypeVecParallel ==
    (Written /\ ValPositive) =>
        /\ ParallelTypes(Bundle.stim_type_vec_train, Bundle.x_train)
        /\ ParallelTypes(Bundle.stim_type_vec_val.v, Bundle.x_val.v)
        /\ ParallelTypes(Bundle.stim_type_vec_test, Bundle.x_test)

\* the request is one the specification accepts
TrainValid == train_size > 0 /\ \A t \in 1..NumTypes : WholeAtEveryStep(train_size, t)
ValValid ==
    IsNone(val_size)
    \/ (val_size[1] > 0 /\ \A t \in 1..NumTypes : WholeAtEveryStep(val_size[1], t))
TestValid ==
    TestRemainder
    \/ (test_size[1] > 0 /\ \A t \in 1..NumTypes : WholeAtEveryStep(test_size[1], t))
\* what the request draws from pool q, test counted only as a fixed count
Demand(q) ==
    PerLeaf(train_size, q[1])
    + (IF ValRequested THEN PerLeaf(val_size[1], q[1]) ELSE 0)
    + (IF TestFixed THEN PerLeaf(test_size[1], q[1]) ELSE 0)
Available == \A q \in LeafPools : Demand(q) <= PoolSize(q)
\* every pool keeps at least one filename for a remainder-mode test split
RemainderLeft == \A q \in LeafPools : Demand(q) < PoolSize(q)

\* C4: with val_size None and every other input valid, data() completes and
\* writes a bundle with x_val = None and y_val = None.
C4_NoValidationSplit ==
    ( /\ Done
      /\ n_json = 1
      /\ NumTypes >= 1
      /\ IsNone(val_size)
      /\ TrainValid
      /\ IsNone(test_size) \/ TestFixed
      /\ TestValid
      /\ Available
      /\ RemainderLeft )
    => /\ Written
       /\ raised = NoExc
       /\ Bundle.x_val = NoneList
       /\ Bundle.y_val = NoneList

\* C5: test_size None and test_size -1 both select remainder mode, for any
\* number of stimulus types: the run completes, and from every pool the test
\* split receives exactly the filenames drawn for neither train nor val.
C5_RemainderMode ==
    ( /\ Done
      /\ n_json = 1
      /\ NumTypes >= 1
      /\ TestRemainder
      /\ TrainValid
      /\ ValPositive
      /\ ValValid
      /\ Available
      /\ RemainderLeft )
    => /\ Written
       /\ \A q \in LeafPools :
            /\ PoolFiles(q) \cap Elems(Bundle.x_test)
               = PoolFiles(q) \ (Elems(Bundle.x_train) \cup Elems(Bundle.x_val.v))
            /\ CountFrom(Bundle.x_test, q)
               = PoolSize(q) - CountFrom(Bundle.x_train, q)
                             - CountFrom(Bundle.x_val.v, q)

\* the sizes the divisibility rule applies to: train_size, a requested
\* val_size, a positive test_size
WholeFor(t) ==
    /\ WholeAtEveryStep(train_size, t)
    /\ ValRequested => WholeAtEveryStep(val_size[1], t)
    /\ TestFixed => WholeAtEveryStep(test_size[1], t)
WholeAtFirstStep ==
    /\ train_size % NumTypes = 0
    /\ ValRequested => val_size[1] % NumTypes = 0
    /\ TestFixed => test_size[1] % NumTypes = 0
\* an exception raised before the loops reach stimulus type t / leaf l of it
RaisedBefore(t, l) ==
    /\ raised.exc # ""
    /\ \/ raised.stim < t
       \/ raised.stim = t /\ raised.leaf < l
RaisedAt(t, l) == raised.exc # "" /\ raised.stim = t /\ raised.leaf = l

\* C6: when a size fails to divide to a whole number at any of the three
\* steps (by types, by the type's set sizes, by 2) the run ends in an error
\* and writes nothing: a TypeError from the first stimulus type that fails,
\* unless the run failed before reaching it. No quotient is rounded: at every
\* leaf, per-leaf size * 2 * set sizes of the type * types = requested size.
C6_WholeOrError ==
    /\ (Done /\ n_json = 1 /\ NumTypes >= 1) =>
          /\ ~WholeAtFirstStep =>
                /\ ~Written
                /\ raised.exc = "TypeError"
                /\ raised.line \in {110, 118, 128}
          /\ \A t \in 1..NumTypes :
                ( /\ WholeAtFirstStep
                  /\ ~WholeFor(t)
                  /\ \A u \in 1..(t - 1) : WholeFor(u) )
                => /\ ~Written
                   /\ \/ RaisedBefore(t, 0)
                      \/ /\ RaisedAt(t, 0)
                         /\ raised.exc = "TypeError"
                         /\ raised.line \in {147, 156, 168}
    /\ (pc = "leaf" \/ pc = "finish" \/ Written) =>
          LET t == IF pc = "leaf" THEN stim ELSE NumTypes
              m == 2 * NumSetSizes(t) * NumTypes
          IN /\ train_size_per_set_size * m = train_size
             /\ ValRequested => val_size_per_set_size * m = val_size[1]
             /\ TestFixed => test_size_per_set_size * m = test_size[1]

\* a run that divides evenly by the number of types and for the first
\* stimulus type, and fails at the set-size step of the second
C6_Witness ==
    /\ Done
    /\ raised.exc = "TypeError"
    /\ raised.line = 147
    /\ raised.stim = 2

\* pool q is oversubscribed: the per-leaf sizes of its stimulus type are whole
\* and their sum exceeds the pool
Oversubscribed(q) ==
    /\ WholeAtFirstStep
    /\ WholeFor(q[1])
    /\ Demand(q) > PoolSize(q)
LeafOf(q) == 2 * (q[2] - 1) + q[3]

\* C7: when train + val + (fixed) test per leaf exceeds a pool, the run ends
\* in an error and writes nothing: the ValueError of line 198 at the first
\* such pool, unless the run failed before reaching it. A written bundle has,
\* from every pool, at least the requested count in each split.
C7_Oversubscription ==
    /\ (Done /\ n_json = 1 /\ NumTypes >= 1) =>
          \A q \in LeafPools :
             ( /\ Oversubscribed(q)
               /\ \A r \in LeafPools :
                     (r[1] < q[1] \/ (r[1] = q[1] /\ LeafOf(r) < LeafOf(q)))
                        => ~Oversubscribed(r) )
             => /\ ~Written
                /\ \/ RaisedBefore(q[1], LeafOf(q))
                   \/ /\ RaisedAt(q[1], LeafOf(q))
                      /\ raised.exc = "ValueError"
                      /\ raised.line = 198
    /\ Written =>
          \A q \in LeafPools :
             /\ CountFrom(Bundle.x_train, q) >= PerLeaf(train_size, q[1])
             /\ ValRequested =>
                   CountFrom(Bundle.x_val.v, q) >= PerLeaf(val_size[1], q[1])
             /\ TestFixed =>
                   CountFrom(Bundle.x_test, q) >= PerLeaf(test_size[1], q[1])

\* the oversubscription error raised at a pool that is not the first, by a
\* request with a fixed test count
C7_Witness ==
    /\ Done
    /\ raised.exc = "ValueError"
    /\ raised.line = 198
    /\ raised.leaf >= 2
    /\ TestFixed

\* the literal "present" occurs somewhere in s
HasLiteral(s) ==
    \E a \in 1..(Len(s) - Len(Literal) + 1) :
        SubSeq(s, a, a + Len(Literal) - 1) = Literal
LabelsMatch(y, x) ==
    /\ Len(y) = Len(x)
    /\ \A i \in 1..Len(x) :
          i <= Len(y) =>
             /\ y[i] \in {0, 1}
             /\ y[i] = 1 <=> HasLiteral(PathOf(x[i]))

\* C8: in a written bundle y_s has the length and order of x_s, and y_s[i] is
\* 1 if and only if the literal "present" occurs in the path x_s[i], else 0.
C8_LabelFromPath ==
    Written =>
        /\ LabelsMatch(Bundle.y_train, Bundle.x_train)
        /\ Bundle.y_val.tag = "list"
        /\ LabelsMatch(Bundle.y_val.v, Bundle.x_val.v)
        /\ LabelsMatch(Bundle.y_test, Bundle.x_test)

\* a bundle holding a file of an 'absent' pool labelled 1 and a file of a
\* 'present' pool labelled 0
C8_Witness ==
    /\ Written
    /\ \E i \in 1..Len(Bundle.x_train) :
          Bundle.x_train[i][3] = 2 /\ Bundle.y_train[i] = 1
    /\ \E i \in 1..Len(Bundle.x_test) :
          Bundle.x_test[i][3] = 1 /\ Bundle.y_test[i] = 0

\* C9: in a written bundle (of a request with a positive val_size), for each stimulus type and set size the train
\* split and the test split each hold as many 'present' as 'absent' samples,
\* and all set sizes of a stimulus type give the same number of train samples.
C9_Balanced ==
    (Written /\ ValPositive) =>
        \A t \in 1..NumTypes :
            /\ \A k \in 1..NumSetSizes(t) :
                  /\ CountFrom(Bundle.x_train, << t, k, 1 >>)
                     = CountFrom(Bundle.x_train, << t, k, 2 >>)
                  /\ CountFrom(Bundle.x_test, << t, k, 1 >>)
                     = CountFrom(Bundle.x_test, << t, k, 2 >>)
            /\ \A k, l \in 1..NumSetSizes(t) :
                  CountFrom(Bundle.x_train, << t, k, 1 >>)
                     + CountFrom(Bundle.x_train, << t, k, 2 >>)
                  = CountFrom(Bundle.x_train, << t, l, 1 >>)
                     + CountFrom(Bundle.x_train, << t, l, 2 >>)

\* the integer set size of the pool a filename is listed in
SetSizeOfFile(f) == IntOfKey(fnames_dict[f[1]][f[2]].key)
ParallelSetSizes(vec, x) ==
    /\ Len(vec) = Len(x)
    /\ \A i \in 1..Len(x) : i <= Len(vec) => vec[i] = SetSizeOfFile(x[i])

\* C18: in a written bundle set_size_vec_s has the length of x_s and entry i
\* is the integer set size of the pool x_s[i] was drawn from, for train, val
\* and test; set_sizes_by_stim_stype lists every stimulus type of the
\* manifest, in manifest order, with its set sizes as integers in manifest
\* order.
C18_SetSizeVecParallel ==
    Written =>
        /\ ParallelSetSizes(Bundle.set_size_vec_train, Bundle.x_train)
        /\ Bundle.set_size_vec_val.tag = "list"
        /\ ParallelSetSizes(Bundle.set_size_vec_val.v, Bundle.x_val.v)
        /\ ParallelSetSizes(Bundle.set_size_vec_test, Bundle.x_test)
        /\ Len(Bundle.set_sizes_by_stim_stype) = NumTypes
        /\ \A t \in 1..NumTypes :
              /\ Bundle.set_sizes_by_stim_stype[t][1] = StimNames[t]
              /\ Len(Bundle.set_sizes_by_stim_stype[t][2]) = NumSetSizes(t)
              /\ \A k \in 1..NumSetSizes(t) :
                    Bundle.set_sizes_by_stim_stype[t][2][k]
                    = IntOfKey(fnames_dict[t][k].key)

\* a bundle whose three splits each hold samples of two set sizes
C18_Witness ==
    /\ Written
    /\ \E i, j \in 1..Len(Bundle.x_train) :
          Bundle.set_size_vec_train[i] # Bundle.set_size_vec_train[j]
    /\ \E i, j \in 1..Len(Bundle.x_val.v) :
          Bundle.set_size_vec_val.v[i] # Bundle.set_size_vec_val.v[j]
    /\ \E i, j \in 1..Len(Bundle.x_test) :
          Bundle.set_size_vec_test[i] # Bundle.set_size_vec_test[j]

\* test_size is 0 or a negative value other than -1
TestSizeRefused == (~IsNone(test_size)) /\ test_size[1] # -1 /\ test_size[1] <= 0

\* C19: with a test_size of 0, or negative and not -1, no filename is ever
\* assigned to a split (no leaf pool is reached), no bundle is written, and
\* the call ends in an error.
C19_TestSizeRejected ==
    TestSizeRefused =>
        /\ pc \notin { "leaf", "finish" }
        /\ x_train = << >>
        /\ x_val.v = << >>
        /\ x_test = << >>
        /\ ~Written
        /\ Done => raised.exc # ""

\* test_size = -2 over two stimulus types (a whole -1 each) refused at the
\* first stimulus type, and nothing else wrong with the request
C19_Witness ==
    /\ Done
    /\ test_size = Some(-2)
    /\ NumTypes = 2
    /\ raised.exc = "ValueError"
    /\ raised.line = 171
    /\ raised.stim = 1
    /\ ValPositive

\* C20: a call with a negative val_size never writes a bundle, and at no
\* leaf pool does a negative val_size_per_set_size make the total of the
\* oversubscription check smaller than it is without the validation share.
C20_NegativeValRejected ==
    ((~IsNone(val_size)) /\ val_size[1] < 0) =>
        /\ ~Written
        /\ pc = "leaf" =>
              total_size_of(train_size_per_set_size, val_size_per_set_size,
                            test_size_per_set_size)
              >= total_size_of(train_size_per_set_size, 0, test_size_per_set_size)

\* the errors of the manifest lookup (76, 79), of the whole-number tests
\* (110 to 168), of an invalid test size (171) and of oversubscription (198)
ErrorLinesBeforeDump == { 76, 79, 110, 118, 128, 147, 156, 168, 171, 198 }

\* C21: the bundle file exists only once the call is over, it then holds
\* samples of every leaf pool of every stimulus type, and the output
\* directory is created no earlier than that last step; a call that ends in
\* a manifest-lookup, whole-number, invalid-test-size or oversubscription
\* error, at whichever stimulus type or leaf, leaves no bundle file and no
\* output directory.
C21_WrittenLast ==
    /\ (Written \/ gz_dir_exists) => Done
    /\ Written =>
          /\ raised = NoExc
          /\ gz_dir_exists
          /\ Len(Bundle.set_sizes_by_stim_stype) = NumTypes
          /\ \A q \in LeafPools : CountFrom(Bundle.x_train, q) > 0
    /\ (Done /\ raised.line \in ErrorLinesBeforeDump) =>
          /\ ~Written
          /\ ~gz_dir_exists

\* the oversubscription error raised at a pool of the second stimulus type,
\* after the pools of the first were sampled: nothing on disk
C21_Witness ==
    /\ Done
    /\ raised.exc = "ValueError"
    /\ raised.line = 198
    /\ raised.stim = 2
    /\ ~gz_dir_exists
    /\ gz_file = << >>

LabelsByPool(y, x) ==
    /\ Len(y) = Len(x)
    /\ \A i \in 1..Len(x) :
          i <= Len(y) =>
             /\ x[i][3] = 1 => y[i] = 1
             /\ x[i][3] = 2 => y[i] = 0

\* C22: in a written bundle (of a request with a positive val_size) every
\* sample of every split is labelled 1 when it was drawn from a 'present'
\* pool of the manifest and 0 when it was drawn from an 'absent' pool,
\* whatever the text of its filename.
C22_LabelByPool ==
    (Written /\ ValPositive) =>
        /\ LabelsByPool(Bundle.y_train, Bundle.x_train)
        /\ LabelsByPool(Bundle.y_val.v, Bundle.x_val.v)
        /\ LabelsByPool(Bundle.y_test, Bundle.x_test)

\* =================================================================
\* Properties of compute_d_prime
\* =================================================================
Indices == 1..Len(y_true)
Targets == Cardinality({ i \in Indices : y_true[i] = 1 })
Lures == Cardinality({ i \in Indices : y_true[i] = 0 })
HitCount == Cardinality({ i \in Indices : y_true[i] = 1 /\ y_pred[i] = 1 })
FalseAlarmCount == Cardinality({ i \in Indices : y_true[i] = 0 /\ y_pred[i] = 1 })
\* the float x is the fraction n/d
IsFraction(x, n, d) == x.kind = "fin" /\ x.n * d = n * x.d
\* the rate count/N with the boundary rule applied once
RateIs(x, count, N) ==
    IF count = N THEN IsFraction(x, 2 * N - 1, 2 * N)
    ELSE IF count = 0 THEN IsFraction(x, 1, 2 * N)
    ELSE IsFraction(x, count, N)
StrictlyInside(x) == x.kind = "fin" /\ 0 < x.n /\ x.n < x.d

\* C10: with at least one target and one lure, the returned hit rate is
\* hits/(hits+misses) and the returned false-alarm rate is
\* false_alarms/(false_alarms+correct_rejects), a rate of exactly 1 replaced
\* by 1 - 0.5/N and a rate of exactly 0 by 0.5/N (N the rate's denominator),
\* any other rate unchanged; both lie strictly between 0 and 1.
C10_Rates ==
    (dp_pc = "done" /\ Targets >= 1 /\ Lures >= 1) =>
        /\ hits + misses = Targets
        /\ false_alarms + correct_rejects = Lures
        /\ RateIs(returned[1], HitCount, Targets)
        /\ RateIs(returned[2], FalseAlarmCount, Lures)
        /\ StrictlyInside(returned[1])
        /\ StrictlyInside(returned[2])

\* a perfect hit rate corrected downwards and a zero false-alarm rate
\* corrected upwards, over more than one target
C10_Witness ==
    /\ dp_pc = "done"
    /\ Targets >= 2
    /\ Lures >= 1
    /\ HitCount = Targets
    /\ FalseAlarmCount = 0
    /\ IsFraction(returned[1], 2 * Targets - 1, 2 * Targets)

\* the value is a finite number
Finite(x) == x.kind = "fin"

\* C11: compute_d_prime never returns an infinite or NaN value: every call
\* that returns gives a finite hit rate, a finite false-alarm rate and a
\* finite d', and a call whose y_true holds no 1 or no 0 does not return at
\* all (it fails on the division by zero).
C11_NeverNaN ==
    dp_pc = "done" =>
        /\ Targets >= 1
        /\ Lures >= 1
        /\ Finite(returned[1])
        /\ Finite(returned[2])
        /\ returned[3] = "fin"

\* =================================================================
\* Properties of p_item_grid, acc_grid and err_grid
\* =================================================================
GridDone == grid_pc = "done"
GridRaised == grid_raised.exc # ""
GridReturns == GridDone /\ ~GridRaised
NumGrids == Len(char_grids)
\* the cells of the (common) grid shape
Cells == IF NumGrids = 0 THEN {} ELSE CellsOf(char_grids[1])
Occupied(i, cell) == char_grids[i][cell[1]][cell[2]] # ""
\* char_grids is empty or holds grids of more than one shape
BadShapes ==
    \/ NumGrids = 0
    \/ \E i, j \in 1..NumGrids : ShapeOf(char_grids[i]) # ShapeOf(char_grids[j])
\* the grids that have a source filename in stim_fnames_meta
Paired == { i \in 1..NumGrids : i <= Len(stim_fnames_meta) }
Matches(i) == { k \in 1..Len(stim_fnames) : stim_fnames[k] = stim_fnames_meta[i] }
BadMatch(i) == Cardinality(Matches(i)) # 1
\* the prediction for the file of grid i is right
Correct(i) == \E k \in Matches(i) : y_true[k] = y_pred[k]
\* what acc_grid adds up at a cell over the grids it pairs with a filename
TrialsAt(cell) == Cardinality({ i \in Paired : Occupied(i, cell) })
CorrectAt(cell) == Cardinality({ i \in Paired : Occupied(i, cell) /\ Correct(i) })
\* the occupied cells of all grids of char_grids, paired or not
AllOccupied == { ic \in (1..NumGrids) \X Cells : Occupied(ic[1], ic[2]) }
At(arr, cell) == arr[cell[1]][cell[2]]

\* C12: when acc_grid returns, correct_counts[cell] <= trial_counts[cell] at
\* every cell, the sum of trial_counts is the number of non-empty cells over
\* all grids of char_grids, and each grid of char_grids adds 1 to
\* trial_counts at each of its non-empty cells.
C12_CountsOverAllGrids ==
    (called = "acc_grid" /\ GridReturns) =>
        /\ \A cell \in Cells : At(correct_counts, cell) <= At(trial_counts, cell)
        /\ SumAll(trial_counts) = Cardinality(AllOccupied)
        /\ \A cell \in Cells :
              At(trial_counts, cell)
              = Cardinality({ i \in 1..NumGrids : Occupied(i, cell) })

\* the first grid (in list order) whose source filename has no single match
FirstBadMatch(i) == BadMatch(i) /\ \A j \in Paired : j < i => ~BadMatch(j)

\* C13: when the source filename of some grid matches no entry or more than
\* one entry of stim_fnames, acc_grid returns no grid and ends in an error:
\* the ValueError of line 147 raised at the first such grid, unless the shape
\* check failed before the loop. When acc_grid returns, every grid with a
\* source filename matched exactly one index i, and it was counted as correct
\* at its occupied cells exactly when y_true[i] = y_pred[i].
C13_UniqueMatch ==
    (called = "acc_grid" /\ GridDone) =>
        /\ \A i \in Paired :
              FirstBadMatch(i) =>
                 /\ grid_returned = << >>
                 /\ grid_raised.exc = "ValueError"
                 /\ \/ grid_raised.line = 132 /\ grid_raised.grid = 0
                    \/ grid_raised.line = 147 /\ grid_raised.grid = i
        /\ ~GridRaised =>
              /\ grid_returned # << >>
              /\ \A i \in Paired : Cardinality(Matches(i)) = 1
              /\ \A cell \in Cells : At(correct_counts, cell) = CorrectAt(cell)

\* the error raised at the second grid, whose filename is not in stim_fnames,
\* after the first grid was counted
C13_Witness ==
    /\ called = "acc_grid"
    /\ GridDone
    /\ grid_raised.line = 147
    /\ grid_raised.grid = 2
    /\ Matches(2) = {}
    /\ SumAll(trial_counts) > 0

\* acc_grid raises on these arguments
AccGridRaises == BadShapes \/ \E i \in Paired : BadMatch(i)
\* the accuracy acc_grid returns at a cell for these arguments
IsAccuracyAt(x, cell) ==
    IF TrialsAt(cell) = 0 THEN x = NaN
    ELSE IsFraction(x, CorrectAt(cell), TrialsAt(cell))

\* C14: err_grid raises exactly when acc_grid raises on the same arguments
\* (the exception is acc_grid's); otherwise its first result is 1 - accuracy
\* at every cell where the accuracy is defined, so that the two add to 1, and
\* undefined where the accuracy is undefined; with return_counts it returns
\* acc_grid's correct_counts and trial_counts after it, without them nothing
\* else.
C14_ErrIsComplement ==
    (called = "err_grid" /\ GridDone) =>
        /\ GridRaised <=> AccGridRaises
        /\ GridRaised => (grid_returned = << >> /\ grid_raised.line \in {132, 147})
        /\ ~GridRaised =>
              /\ Len(grid_returned) = (IF return_counts THEN 3 ELSE 1)
              /\ \A cell \in Cells :
                    LET a == At(acc, cell)
                        e == At(grid_returned[1], cell)
                    IN /\ IsAccuracyAt(a, cell)
                       /\ Finite(a) =>
                             /\ Finite(e)
                             /\ e.n * a.d + a.n * e.d = a.d * e.d
                       /\ ~Finite(a) => e = NaN
              /\ return_counts =>
                    /\ grid_returned[2] = correct_counts
                    /\ grid_returned[3] = trial_counts
                    /\ \A cell \in Cells :
                          /\ At(grid_returned[2], cell) = CorrectAt(cell)
                          /\ At(grid_returned[3], cell) = TrialsAt(cell)

\* err_grid returns, with counts, an error of 1/2 at a cell (one of two
\* trials correct) and leaves another cell undefined
C14_Witness ==
    /\ called = "err_grid"
    /\ GridReturns
    /\ return_counts
    /\ \E c1, c2 \in Cells :
          /\ IsFraction(At(grid_returned[1], c1), 1, 2)
          /\ At(grid_returned[1], c2) = NaN

\* C15: when char_grids is empty or holds grids of more than one shape,
\* p_item_grid and acc_grid count no cell and match no filename (the count
\* arrays are never allocated, the loop never starts), and the call ends in
\* the ValueError of the shape check with nothing returned.
C15_ShapeErrorFirst ==
    (called \in { "p_item_grid", "acc_grid" } /\ BadShapes) =>
        /\ g_idx = 0
        /\ counts = << >>
        /\ correct_counts = << >>
        /\ trial_counts = << >>
        /\ grid_returned = << >>
        /\ grid_pc \in { "shape", "done" }
        /\ GridDone =>
              /\ grid_raised.exc = "ValueError"
              /\ grid_raised.line = (IF called = "p_item_grid" THEN 76 ELSE 132)
              /\ grid_raised.grid = 0

\* acc_grid refused two grids of different shapes whose filenames would each
\* have matched
C15_Witness ==
    /\ called = "acc_grid"
    /\ GridDone
    /\ NumGrids = 2
    /\ ShapeOf(char_grids[1]) # ShapeOf(char_grids[2])
    /\ \A i \in 1..NumGrids : i \in Paired /\ ~BadMatch(i)
    /\ grid_raised.line = 132

\* C16: in the grid acc_grid returns, a cell occupied in none of the grids,
\* and any cell with no trial, holds NaN and never a number; a cell with at
\* least one trial holds correct_counts / trial_counts, between 0 and 1
\* inclusive; and a call with one grid shape and one match per filename
\* returns (an undefined cell raises nothing).
C16_UndefinedCells ==
    (called = "acc_grid" /\ GridDone) =>
        /\ ~AccGridRaises => ~GridRaised
        /\ ~GridRaised =>
              \A cell \in Cells :
                 LET a == At(grid_returned[1], cell) IN
                 /\ (\A i \in 1..NumGrids : ~Occupied(i, cell)) => a = NaN
                 /\ At(trial_counts, cell) = 0 => a = NaN
                 /\ At(trial_counts, cell) > 0 =>
                       /\ Finite(a)
                       /\ IsFraction(a, At(correct_counts, cell), At(trial_counts, cell))
                       /\ 0 <= a.n
                       /\ a.n <= a.d

\* acc_grid returns a grid with an undefined cell next to a cell of
\* accuracy 1/2
C16_Witness ==
    /\ called = "acc_grid"
    /\ GridReturns
    /\ \E c1, c2 \in Cells :
          /\ At(grid_returned[1], c1) = NaN
          /\ \A i \in 1..NumGrids : ~Occupied(i, c1)
          /\ IsFraction(At(grid_returned[1], c2), 1, 2)

\* how many grids hold item_char at the cell
ItemCountAt(cell) ==
    Cardinality({ i \in 1..NumGrids : char_grids[i][cell[1]][cell[2]] = item_char })
ItemTotal ==
    Cardinality({ ic \in (1..NumGrids) \X Cells :
                    char_grids[ic[1]][ic[2][1]][ic[2][2]] = item_char })
\* the numerators of an array of fractions
Numerators(arr) == [r \in 1..Len(arr) |-> [c \in 1..Len(arr[r]) |-> arr[r][c].n]]

\* C17: for grids of one shape p_item_grid returns: counts[cell] = the number
\* of grids holding item_char at the cell; p[cell] = counts[cell] / the sum
\* of counts over all cells, so the values of p add up to 1 when item_char
\* occurs at all; with return_counts the counts array after p, without it p
\* alone.
C17_ItemProbability ==
    (called = "p_item_grid" /\ GridDone /\ ~BadShapes) =>
        /\ ~GridRaised
        /\ Len(grid_returned) = (IF return_counts THEN 2 ELSE 1)
        /\ \A cell \in Cells :
              /\ At(counts, cell) = ItemCountAt(cell)
              /\ ItemTotal > 0 =>
                    IsFraction(At(grid_returned[1], cell), ItemCountAt(cell), ItemTotal)
        /\ ItemTotal > 0 =>
              \* over the common denominator the numerators add up to it
              /\ \A cell \in Cells :
                    /\ Finite(At(grid_returned[1], cell))
                    /\ At(grid_returned[1], cell).d = ItemTotal
              /\ SumAll(Numerators(grid_returned[1])) = ItemTotal
        /\ return_counts => grid_returned[2] = counts

\* p_item_grid returns p = (1/2, 1/2) with its counts, from grids that also
\* hold other characters
C17_Witness ==
    /\ called = "p_item_grid"
    /\ GridReturns
    /\ return_counts
    /\ \A cell \in Cells : IsFraction(At(grid_returned[1], cell), 1, 2)
    /\ \E i \in 1..NumGrids : \E cell \in Cells :
          Occupied(i, cell) /\ char_grids[i][cell[1]][cell[2]] # item_char

====
